---------------------------- MODULE Spec2Model ----------------------------
(***************************************************************************)
(* The epsilon-first bandit of moe/bandit/epsilon_first.py and the         *)
(* bandit_epsilon endpoint of moe/views/rest/bandit_epsilon.py.            *)
(*                                                                         *)
(* Numbers.  win, loss, total and total_samples are non-negative integers. *)
(* A float is modelled by the rational <<n, d>> (d > 0) it rounds.  Two    *)
(* float64 quotients p / q of integers this small are equal (or ordered)   *)
(* exactly when the rationals are.  The product total_samples * epsilon    *)
(* is not exact: epsilon is the float64 nearest n / d and the product is   *)
(* rounded once more, so it can lie above the integer the exact product    *)
(* is (100 * 0.07 = 7.000000000000001).  FloatProductRoundsUp computes     *)
(* that from the IEEE-754 rounding rules.                                 *)
(*                                                                         *)
(* An optional value (None, or a key that is missing) is a sequence of     *)
(* length 0 or 1.                                                          *)
(*                                                                         *)
(* Three specifications.  Spec: one POST request through                   *)
(* bandit_epsilon_view.  SpecEngine: the view from the constructed         *)
(* EpsilonFirst object on, over every history within the bounds.           *)
(* SpecSchedule: one experiment whose history grows between allocations.   *)
(***************************************************************************)
EXTENDS Integers, Sequences, FiniteSets, TLC

\* Largest win, loss and total of one arm of a request.
MaxCount == 1
\* Largest number of trials one experiment of SpecSchedule records.
MaxTrials == 4
\* The uniform draw of choose_arm is k / DrawDen, k in 0 .. DrawDen - 1.
DrawDen == 6

VARIABLES
    request,              \* the json_body of the POST request
    params,               \* what get_params_from_request returned, if it did
    bandit,               \* the EpsilonFirst object, once constructed
    arms_to_allocations,  \* what allocate_arms returned ('arms' of the response)
    branch,               \* the branch the last allocate_arms call took
    winner,               \* what choose_arm returned ('winner' of the response)
    error,                \* the exception that ended the request, if any
    branches_taken,       \* the branches the allocate_arms calls so far took
    pc                    \* where the handler stands

vars == <<request, params, bandit, arms_to_allocations, branch, winner, error,
          branches_taken, pc>>

---------------------------------------------------------------------------
(* Rationals *)

RatLess(a, b) == a[1] * b[2] < b[1] * a[2]
RatEq(a, b)   == a[1] * b[2] = b[1] * a[2]
RatLeq(a, b)  == a[1] * b[2] <= b[1] * a[2]
RatAdd(a, b)  == <<a[1] * b[2] + b[1] * a[2], a[2] * b[2]>>

\* 1.0 / k and 0.0 as the code writes them.
OneOver(k) == <<1, k>>
Zero == <<0, 1>>

---------------------------------------------------------------------------
(* Data *)

\* The arm names of the example request; Python orders them as strings.
ArmNames == {"arm1", "arm2", "arm3"}
ArmRank == [a \in ArmNames |->
              IF a = "arm1" THEN 1 ELSE IF a = "arm2" THEN 2 ELSE 3]
NameLess(a, b) == ArmRank[a] < ArmRank[b]

\* The observations of one arm: any non-negative win, loss and total.
SampledArms == [win : 0 .. MaxCount, loss : 0 .. MaxCount, total : 0 .. MaxCount]

\* Every arms_sampled mapping, the empty one included.
ArmsSampledMaps == UNION {[S -> SampledArms] : S \in SUBSET ArmNames}

\* The arms of the documented example request.
DocArms == {[win |-> 20, loss |-> 5, total |-> 25],
            [win |-> 20, loss |-> 10, total |-> 30],
            [win |-> 0, loss |-> 0, total |-> 0]}

\* Histories over the documented arms, the empty one included.
DocArmsSampledMaps == UNION {[S -> DocArms] : S \in SUBSET ArmNames}

\* epsilon and total_samples of the objects of SpecEngine and SpecSchedule:
\* no exploration, a threshold of 1, a threshold of 2, and a threshold whose
\* float64 value, 273 * (1 / 91.) = 3.0000000000000004, lies above 3.
EngineHyperparameterInfos ==
    {[epsilon |-> <<<<0, 1>>>>, total_samples |-> <<2>>],
     [epsilon |-> <<<<1, 2>>>>, total_samples |-> <<2>>],
     [epsilon |-> <<<<1, 1>>>>, total_samples |-> <<2>>],
     [epsilon |-> <<<<1, 91>>>>, total_samples |-> <<273>>]}

\* epsilon and total_samples as a request may state them: 0.05, 0.1 and the
\* out-of-range 1.5; 50, 1000 and the non-positive 0.
RequestEpsilons == {<<1, 20>>, <<1, 10>>, <<3, 2>>}
RequestTotalSamples == {0, 50, 1000}

EPSILON_SUBTYPE_FIRST == "first"
EPSILON_SUBTYPE_GREEDY == "greedy"
EPSILON_SUBTYPES == {EPSILON_SUBTYPE_FIRST, EPSILON_SUBTYPE_GREEDY}
\* moe.bandit.constant: 0.05 and 100.
DEFAULT_EPSILON == <<1, 20>>
DEFAULT_TOTAL_SAMPLES == 100

---------------------------------------------------------------------------
(* moe.bandit.epsilon_first.EpsilonFirst *)

\* HistoricalInfo.num_arms: the number of distinct arm identifiers.
num_arms(historical_info) == Cardinality(DOMAIN historical_info)

\* EpsilonFirst.__init__
EpsilonFirstInit(historical_info, epsilon, total_samples) ==
    [historical_info |-> historical_info,
     subtype |-> EPSILON_SUBTYPE_FIRST,
     epsilon |-> epsilon,
     total_samples |-> total_samples]

\* sum([sampled_arm.total for sampled_arm in arms_sampled.itervalues()])
RECURSIVE SumTotals(_, _)
SumTotals(arms_sampled, names) ==
    IF names = {} THEN 0
    ELSE LET a == CHOOSE x \in names : TRUE
         IN  arms_sampled[a].total + SumTotals(arms_sampled, names \ {a})

num_sampled(arms_sampled) == SumTotals(arms_sampled, DOMAIN arms_sampled)

RECURSIVE Pow2(_)
Pow2(k) == IF k = 0 THEN 1 ELSE 2 * Pow2(k - 1)

\* 2^k modulo d.
RECURSIVE Pow2Mod(_, _)
Pow2Mod(k, d) == IF k = 0 THEN 1 % d ELSE (2 * Pow2Mod(k - 1, d)) % d

\* The least j >= i with d <= n * 2^j: n / d lies in [2^-j, 2^(1-j)).
RECURSIVE BinadeShift(_, _, _)
BinadeShift(n, d, i) == IF d <= n * Pow2(i) THEN i ELSE BinadeShift(n, d, i + 1)

RECURSIVE FloorLog2(_)
FloorLog2(N) == IF N < 2 THEN 0 ELSE 1 + FloorLog2(N \div 2)

\* The float64 nearest n / d is n / d + r / (d * 2^(52 + j)), j the binade
\* shift of n / d and r the signed remainder of the 53-bit quotient.
QuotientError(n, d) ==
    LET j == BinadeShift(n, d, 0)
        rem == (n * Pow2Mod(52 + j, d)) % d
    IN  IF 2 * rem < d THEN 0 - rem ELSE d - rem

\* total_samples * epsilon in float64 lies above the exact product, when the
\* exact product is an integer N: the error total_samples * r / (d * 2^(52+j))
\* exceeds half the spacing 2^(FloorLog2(N) - 52) of the floats at N.
FloatProductRoundsUp(total_samples, epsilon) ==
    LET n == epsilon[1]
        d == epsilon[2]
    IN  /\ n > 0
        /\ total_samples > 0
        /\ (total_samples * n) % d = 0
        /\ 2 * total_samples * QuotientError(n, d)
              > d * Pow2(BinadeShift(n, d, 0) + FloorLog2((total_samples * n) \div d))

\* Mutant: the phase test with the inequality turned around.
InExplorationPhaseFlipped(self) ==
    self.total_samples * self.epsilon[1]
        < num_sampled(self.historical_info) * self.epsilon[2]

\* Mutant: the phase test with <= for <.
InExplorationPhaseInclusive(self) ==
    num_sampled(self.historical_info) * self.epsilon[2]
        <= self.total_samples * self.epsilon[1]

\* num_sampled < self._total_samples * self._epsilon, the product in float64:
\* an integer below the exact product is below the float, an integer above
\* it is above, an integer equal to it is below the float when it rounds up.
InExplorationPhase(self) ==
    LET exact_n == self.total_samples * self.epsilon[1]
        scaled == num_sampled(self.historical_info) * self.epsilon[2]
    IN  \/ scaled < exact_n
        \/ scaled = exact_n /\ FloatProductRoundsUp(self.total_samples, self.epsilon)

\* Mutant: the exploration allocation splits over the sampled arms only.
ExplorationAllocationSampledOnly(arms_sampled) ==
    LET sampled == {a \in DOMAIN arms_sampled : arms_sampled[a].total > 0}
    IN  [a \in DOMAIN arms_sampled |->
            IF sampled = {} THEN OneOver(num_arms(arms_sampled))
            ELSE IF a \in sampled THEN OneOver(Cardinality(sampled)) ELSE Zero]

\* equal_allocation = 1.0 / num_arms, for every arm name
ExplorationAllocation(arms_sampled) ==
    [a \in DOMAIN arms_sampled |-> OneOver(num_arms(arms_sampled))]

\* Mutant: the win rate, win / total, for the signed payoff.
AvgPayoffWinRate(sampled_arm) ==
    IF sampled_arm.total > 0
    THEN <<sampled_arm.win, sampled_arm.total>>
    ELSE Zero

\* numpy.float64(win - loss) / total if total > 0 else 0
AvgPayoff(sampled_arm) ==
    IF sampled_arm.total > 0
    THEN <<sampled_arm.win - sampled_arm.loss, sampled_arm.total>>
    ELSE Zero

\* Python's order on (avg_payoff, arm_name) tuples.
TupleLess(x, y) ==
    \/ RatLess(x[1], y[1])
    \/ RatEq(x[1], y[1]) /\ NameLess(x[2], y[2])

\* list.sort(reverse=True)
RECURSIVE SortReverse(_)
SortReverse(S) ==
    IF S = {} THEN <<>>
    ELSE LET top == CHOOSE x \in S : \A y \in S \ {x} : TupleLess(y, x)
         IN  <<top>> \o SortReverse(S \ {top})

\* The sorted list of (avg_payoff, arm_name) tuples.
AvgPayoffArmNameList(arms_sampled) ==
    SortReverse({<<AvgPayoff(arms_sampled[a]), a>> : a \in DOMAIN arms_sampled})

\* Mutant: a tie goes to the first arm of the sorted list alone.
WinningArmNamesFirstOnly(arms_sampled) ==
    {AvgPayoffArmNameList(arms_sampled)[1][2]}

\* The names of the tuples whose payoff equals the best payoff.
WinningArmNames(arms_sampled) ==
    LET avg_payoff_arm_name_list == AvgPayoffArmNameList(arms_sampled)
        best_payoff == avg_payoff_arm_name_list[1][1]
        winning_arm_payoff_name_list ==
            SelectSeq(avg_payoff_arm_name_list,
                      LAMBDA t : RatEq(t[1], best_payoff))
    IN  {winning_arm_payoff_name_list[i][2] :
            i \in 1 .. Len(winning_arm_payoff_name_list)}

\* Mutant: every arm gets the winning allocation.
ExploitationAllocationNoZero(arms_sampled) ==
    [a \in DOMAIN arms_sampled |->
        OneOver(Cardinality(WinningArmNames(arms_sampled)))]

\* winning_arm_allocation to the winning arms, 0.0 to the others
ExploitationAllocation(arms_sampled) ==
    LET winning_arm_names == WinningArmNames(arms_sampled)
        num_winning_arms == Cardinality(winning_arm_names)
    IN  [a \in DOMAIN arms_sampled |->
            IF a \in winning_arm_names THEN OneOver(num_winning_arms) ELSE Zero]

\* What a call of allocate_arms leaves: the object after the call, the
\* exception raised (if any), the mapping returned (if any), the branch taken.
Outcome(self, raised, result, br) ==
    [self |-> self, raised |-> raised, result |-> result, branch |-> br]

\* Mutant: an empty history yields an empty mapping.
allocate_arms_no_check(self) ==
    LET arms_sampled == self.historical_info
    IN  IF DOMAIN arms_sampled = {}
        THEN Outcome(self, "", <<arms_sampled>>, "exploration")
        ELSE IF InExplorationPhase(self)
        THEN Outcome(self, "", <<ExplorationAllocation(arms_sampled)>>, "exploration")
        ELSE Outcome(self, "", <<ExploitationAllocation(arms_sampled)>>, "exploitation")

\* Mutant: the exploitation branch drops the losing arms from arms_sampled.
allocate_arms_mutating(self) ==
    LET arms_sampled == self.historical_info
    IN  IF DOMAIN arms_sampled = {} THEN Outcome(self, "ValueError", <<>>, "none")
        ELSE IF InExplorationPhase(self)
        THEN Outcome(self, "", <<ExplorationAllocation(arms_sampled)>>, "exploration")
        ELSE Outcome([self EXCEPT !.historical_info =
                         [a \in WinningArmNames(arms_sampled) |-> arms_sampled[a]]],
                     "", <<ExploitationAllocation(arms_sampled)>>, "exploitation")

\* EpsilonFirst.allocate_arms
allocate_arms(self) ==
    LET arms_sampled == self.historical_info
    IN  IF DOMAIN arms_sampled = {} THEN Outcome(self, "ValueError", <<>>, "none")
        ELSE IF InExplorationPhase(self)
        THEN Outcome(self, "", <<ExplorationAllocation(arms_sampled)>>, "exploration")
        ELSE Outcome(self, "", <<ExploitationAllocation(arms_sampled)>>, "exploitation")


---------------------------------------------------------------------------
(* moe.bandit.epsilon.Epsilon.choose_arm, the selection rule *)

RECURSIVE SumAllocations(_, _)
SumAllocations(allocation, names) ==
    IF names = {} THEN Zero
    ELSE LET a == CHOOSE x \in names : TRUE
         IN  RatAdd(allocation[a], SumAllocations(allocation, names \ {a}))

\* The probability mass of the arms ordered before arm a.
CumulativeBefore(allocation, a) ==
    SumAllocations(allocation, {b \in DOMAIN allocation : NameLess(b, a)})

\* Mutant: the cells of the partition are closed on both sides, the first
\* cell that holds the draw wins.
SelectArmClosed(allocation, u) ==
    LET hits == {a \in DOMAIN allocation :
                    /\ RatLeq(CumulativeBefore(allocation, a), u)
                    /\ RatLeq(u, RatAdd(CumulativeBefore(allocation, a), allocation[a]))}
    IN  CHOOSE a \in hits : \A b \in hits \ {a} : NameLess(a, b)

\* The arm whose cell [c, c + p) of the cumulative partition holds the draw u.
SelectArm(allocation, u) ==
    CHOOSE a \in DOMAIN allocation :
        /\ RatLeq(CumulativeBefore(allocation, a), u)
        /\ RatLess(u, RatAdd(CumulativeBefore(allocation, a), allocation[a]))

\* The draw over what allocate_arms left; u is the value of the random source.
ChooseFrom(out, u) ==
    IF out.raised # ""
    THEN [self |-> out.self, raised |-> out.raised, result |-> ""]
    ELSE LET allocation == out.result[1]
         IN  IF \/ DOMAIN allocation = {}
                \/ ~RatEq(SumAllocations(allocation, DOMAIN allocation), <<1, 1>>)
             THEN [self |-> out.self, raised |-> "InvalidAllocationError",
                   result |-> ""]
             ELSE [self |-> out.self, raised |-> "",
                   result |-> SelectArm(allocation, u)]

\* choose_arm(): allocate, then draw.
choose_arm(self, u) == ChooseFrom(allocate_arms(self), u)

---------------------------------------------------------------------------
(* moe.views.rest.bandit_epsilon *)

\* hyperparameter_info with no key: the 'missing' value of the request schema.
EmptyHyperparameterInfo == [epsilon |-> <<>>, total_samples |-> <<>>]

\* BanditEpsilonRequest.deserialize: a missing subtype is 'greedy', a subtype
\* outside EPSILON_SUBTYPES is refused, a missing hyperparameter_info is {}.
RequestSchemaDeserialize(req) ==
    LET subtype == IF req.subtype = <<>> THEN EPSILON_SUBTYPE_GREEDY
                   ELSE req.subtype[1]
    IN  IF subtype \notin EPSILON_SUBTYPES
        THEN [raised |-> "Invalid", value |-> <<>>]
        ELSE [raised |-> "",
              value |-> <<[subtype |-> subtype,
                           historical_info |-> req.historical_info,
                           hyperparameter_info |->
                               IF req.hyperparameter_info = <<>>
                               THEN EmptyHyperparameterInfo
                               ELSE req.hyperparameter_info[1]]>>]

\* The keys of hyperparameter_info with their 'missing' defaults filled in:
\* epsilon for both subtypes, total_samples for epsilon-first only.
HyperparameterInfoFilled(subtype, hyperparameter_info) ==
    LET epsilon == IF hyperparameter_info.epsilon = <<>> THEN DEFAULT_EPSILON
                   ELSE hyperparameter_info.epsilon[1]
        total_samples == IF hyperparameter_info.total_samples = <<>>
                         THEN DEFAULT_TOTAL_SAMPLES
                         ELSE hyperparameter_info.total_samples[1]
    IN  IF subtype = EPSILON_SUBTYPE_FIRST
        THEN [epsilon |-> epsilon, total_samples |-> total_samples]
        ELSE [epsilon |-> epsilon]

\* The range tests of the schema: epsilon in [0, 1], total_samples positive.
HyperparameterInfoValid(subtype, filled) ==
    /\ RatLeq(Zero, filled.epsilon)
    /\ RatLeq(filled.epsilon, <<1, 1>>)
    /\ subtype = EPSILON_SUBTYPE_FIRST => filled.total_samples > 0

\* schema_class.deserialize(params['hyperparameter_info'])
HyperparameterInfoDeserialize(subtype, hyperparameter_info) ==
    LET filled == HyperparameterInfoFilled(subtype, hyperparameter_info)
    IN  IF HyperparameterInfoValid(subtype, filled)
        THEN [raised |-> "", value |-> <<filled>>]
        ELSE [raised |-> "Invalid", value |-> <<>>]

\* Mutant: the hyperparameters are put back without their range tests run.
get_params_from_request_unvalidated(req) ==
    LET base == RequestSchemaDeserialize(req)
    IN  IF base.raised # "" THEN [raised |-> base.raised, params |-> <<>>]
        ELSE [raised |-> "",
              params |-> <<[base.value[1] EXCEPT !.hyperparameter_info =
                               HyperparameterInfoFilled(base.value[1].subtype, @)]>>]

\* BanditEpsilonView.get_params_from_request
get_params_from_request(req) ==
    LET base == RequestSchemaDeserialize(req)
    IN  IF base.raised # "" THEN [raised |-> base.raised, params |-> <<>>]
        ELSE LET validated_hyperparameter_info ==
                     HyperparameterInfoDeserialize(base.value[1].subtype,
                                                   base.value[1].hyperparameter_info)
             IN  IF validated_hyperparameter_info.raised # ""
                 THEN [raised |-> validated_hyperparameter_info.raised,
                       params |-> <<>>]
                 ELSE [raised |-> "",
                       params |-> <<[base.value[1] EXCEPT !.hyperparameter_info =
                                        validated_hyperparameter_info.value[1]]>>]

\* _make_bandit_historical_info_from_params(params)
MakeBanditHistoricalInfo(p) == p.historical_info.arms_sampled

\* The object of the sibling strategy of subtype 'greedy'; its class is not
\* part of these sources.
EpsilonGreedyInit(historical_info, epsilon) ==
    [historical_info |-> historical_info,
     subtype |-> EPSILON_SUBTYPE_GREEDY,
     epsilon |-> epsilon]

\* EPSILON_SUBTYPES_TO_EPSILON_METHODS[subtype].bandit_class(
\*     historical_info=historical_info, **params.get('hyperparameter_info'))
BanditClass(p) ==
    IF p.subtype = EPSILON_SUBTYPE_FIRST
    THEN EpsilonFirstInit(MakeBanditHistoricalInfo(p),
                          p.hyperparameter_info.epsilon,
                          p.hyperparameter_info.total_samples)
    ELSE EpsilonGreedyInit(MakeBanditHistoricalInfo(p), p.hyperparameter_info.epsilon)

\* What allocate_arms() of the sibling object may leave.  Its algorithm is
\* not part of these sources, so every outcome of the strategy contract is
\* possible: an exception, or a mapping from the arm names to allocations,
\* {arm1: 0.95, arm2: 0.025, arm3: 0.025} of the example response included.
SiblingValues == {<<0, 1>>, <<1, 40>>, <<1, 2>>, <<19, 20>>, <<1, 1>>}
SiblingOutcomes(self) ==
    {Outcome(self, "ValueError", <<>>, "none")} \cup
    {Outcome(self, "", <<allocation>>, "none") :
        allocation \in [DOMAIN self.historical_info -> SiblingValues]}

\* bandit_class.allocate_arms(), by the class of the object.
AllocateOutcomes(self) ==
    IF self.subtype = EPSILON_SUBTYPE_FIRST THEN {allocate_arms(self)}
    ELSE SiblingOutcomes(self)

\* bandit_class.choose_arm(): allocate_arms() of the object once more (for
\* the sibling the allocation it returned before), then the shared draw.
ChooseOutcome(self, allocated, u) ==
    IF self.subtype = EPSILON_SUBTYPE_FIRST THEN choose_arm(self, u)
    ELSE ChooseFrom(Outcome(self, "", allocated, "none"), u)

\* hyperparameter_info as a request may hold it: absent, or a mapping in
\* which each of epsilon and total_samples is absent or stated.
RequestHyperparameterInfos ==
    {<<>>} \cup
    {<<hp>> : hp \in [epsilon : {<<>>} \cup {<<e>> : e \in RequestEpsilons},
                      total_samples : {<<>>} \cup {<<t>> : t \in RequestTotalSamples}]}

\* The json bodies of Spec: subtype absent, known or unknown.
Requests ==
    [subtype : {<<>>, <<EPSILON_SUBTYPE_FIRST>>, <<EPSILON_SUBTYPE_GREEDY>>,
                <<"unknown">>},
     historical_info : [arms_sampled : DocArmsSampledMaps],
     hyperparameter_info : RequestHyperparameterInfos]

\* The json bodies of SpecEngine: epsilon-first over every history.
EngineRequests ==
    [subtype : {<<EPSILON_SUBTYPE_FIRST>>},
     historical_info : [arms_sampled : ArmsSampledMaps],
     hyperparameter_info : {<<hp>> : hp \in EngineHyperparameterInfos}]

Init ==
    /\ request \in Requests
    /\ params = <<>>
    /\ bandit = <<>>
    /\ arms_to_allocations = <<>>
    /\ branch = "none"
    /\ winner = ""
    /\ error = ""
    /\ branches_taken = {}
    /\ pc = "request"

\* params = self.get_params_from_request()
GetParamsFromRequest ==
    /\ pc = "request"
    /\ LET got == get_params_from_request(request)
       IN  /\ params' = got.params
           /\ error' = got.raised
           /\ pc' = IF got.raised = "" THEN "params" ELSE "invalid"
    /\ UNCHANGED <<request, bandit, arms_to_allocations, branch, winner,
                   branches_taken>>

\* historical_info = ...; bandit_class = ...bandit_class(...)
Construct ==
    /\ pc = "params"
    /\ bandit' = <<BanditClass(params[1])>>
    /\ pc' = "constructed"
    /\ UNCHANGED <<request, params, arms_to_allocations, branch, winner, error,
                   branches_taken>>

\* 'arms': bandit_class.allocate_arms()
AllocateArms ==
    /\ pc = "constructed"
    /\ \E out \in AllocateOutcomes(bandit[1]) :
           /\ bandit' = <<out.self>>
           /\ arms_to_allocations' = out.result
           /\ branch' = out.branch
           /\ branches_taken' = branches_taken \cup {out.branch}
           /\ error' = out.raised
           /\ pc' = IF out.raised = "" THEN "allocated" ELSE "failed"
    /\ UNCHANGED <<request, params, winner>>

\* 'winner': bandit_class.choose_arm(), then form_response
ChooseArm ==
    /\ pc = "allocated"
    /\ \E k \in 0 .. DrawDen - 1 :
        LET out == ChooseOutcome(bandit[1], arms_to_allocations, <<k, DrawDen>>)
        IN  /\ bandit' = <<out.self>>
            /\ winner' = out.result
            /\ error' = out.raised
            /\ pc' = IF out.raised = "" THEN "responded" ELSE "failed"
    /\ UNCHANGED <<request, params, arms_to_allocations, branch, branches_taken>>

\* bandit_epsilon_view, one POST request from the json_body to the response.
Next ==
    \/ GetParamsFromRequest
    \/ Construct
    \/ AllocateArms
    \/ ChooseArm

Spec == Init /\ [][Next]_vars

---------------------------------------------------------------------------
(* The engine: the view from the constructed object on *)

\* The state bandit_epsilon_view is in once it has constructed the object.
InitEngine ==
    /\ request \in EngineRequests
    /\ params = get_params_from_request(request).params
    /\ bandit = <<BanditClass(params[1])>>
    /\ arms_to_allocations = <<>>
    /\ branch = "none"
    /\ winner = ""
    /\ error = ""
    /\ branches_taken = {}
    /\ pc = "constructed"

NextEngine ==
    \/ AllocateArms
    \/ ChooseArm

SpecEngine == InitEngine /\ [][NextEngine]_vars

---------------------------------------------------------------------------
(* The schedule: one experiment, its history growing between allocations *)

\* A request of an experiment that has run no trial yet.
FreshRequests ==
    {req \in EngineRequests :
        /\ DOMAIN req.historical_info.arms_sampled # {}
        /\ \A a \in DOMAIN req.historical_info.arms_sampled :
              req.historical_info.arms_sampled[a] = [win |-> 0, loss |-> 0, total |-> 0]}

InitSchedule ==
    /\ request \in FreshRequests
    /\ params = get_params_from_request(request).params
    /\ bandit = <<BanditClass(params[1])>>
    /\ arms_to_allocations = <<>>
    /\ branch = "none"
    /\ winner = ""
    /\ error = ""
    /\ branches_taken = {}
    /\ pc = "schedule"

\* The caller records one more trial of arm a; the next strategy object is
\* built over the grown history with the same epsilon and total_samples.
RecordObservation ==
    /\ pc = "schedule"
    /\ \E a \in DOMAIN bandit[1].historical_info, w \in 0 .. 1, l \in 0 .. 1 :
        /\ num_sampled(bandit[1].historical_info) < MaxTrials
        /\ bandit' = <<[bandit[1] EXCEPT
                          !.historical_info[a].win = @ + w,
                          !.historical_info[a].loss = @ + l,
                          !.historical_info[a].total = @ + 1]>>
    /\ UNCHANGED <<request, params, arms_to_allocations, branch, winner, error,
                   branches_taken, pc>>

\* allocate_arms() over the history as it stands.
Reallocate ==
    /\ pc = "schedule"
    /\ LET out == allocate_arms(bandit[1])
       IN  /\ bandit' = <<out.self>>
           /\ arms_to_allocations' = out.result
           /\ branch' = out.branch
           /\ branches_taken' = branches_taken \cup {out.branch}
           /\ error' = out.raised
    /\ UNCHANGED <<request, params, winner, pc>>

NextSchedule ==
    \/ RecordObservation
    \/ Reallocate

SpecSchedule == InitSchedule /\ [][NextSchedule]_vars

---------------------------------------------------------------------------
(* The claims.  They are stated over the inputs of the request and the     *)
(* values the calls returned.  epsilon of an object is the float64 nearest *)
(* n / d, so total_samples * epsilon is the float64 product the object     *)
(* computes; where the exact product serves as well, it is used.           *)

\* The inputs: arms_sampled of the request, the validated hyperparameters.
ReqArms == request.historical_info.arms_sampled
ReqEpsilon == params[1].hyperparameter_info.epsilon
ReqTotalSamples == params[1].hyperparameter_info.total_samples

\* allocate_arms was called and has ended, by a return or by an exception.
AllocateEnded == pc \in {"allocated", "responded", "failed"}
\* allocate_arms returned; Allocation is the mapping it returned.
AllocateReturned == arms_to_allocations # <<>>
Allocation == arms_to_allocations[1]

\* num_sampled < total_samples * epsilon, and num_sampled = total_samples * epsilon.
ReqInExploration ==
    num_sampled(ReqArms) * ReqEpsilon[2] < ReqTotalSamples * ReqEpsilon[1]
ReqAtBoundary ==
    num_sampled(ReqArms) * ReqEpsilon[2] = ReqTotalSamples * ReqEpsilon[1]

\* The float64 product total_samples * epsilon lies above the integer the
\* exact product is.
ReqProductRoundsUp == FloatProductRoundsUp(ReqTotalSamples, ReqEpsilon)
\* num_sampled < total_samples * epsilon, the product as the object has it.
ReqBelowProduct ==
    \/ ReqInExploration
    \/ ReqAtBoundary /\ ReqProductRoundsUp

\* (win - loss) / total when total > 0, else 0.
SignedPayoff(arm) ==
    IF arm.total > 0 THEN <<arm.win - arm.loss, arm.total>> ELSE <<0, 1>>
\* The arms of the request whose payoff no arm exceeds.
BestArms ==
    {a \in DOMAIN ReqArms :
        \A b \in DOMAIN ReqArms :
            RatLeq(SignedPayoff(ReqArms[b]), SignedPayoff(ReqArms[a]))}

\* C1: for a non-empty history allocate_arms returns a mapping whose keys are
\* exactly the arm names of arms_sampled, whose values lie in [0, 1] and sum
\* to 1, in either branch.
C1_AllocationIsDistribution ==
    (AllocateEnded /\ DOMAIN ReqArms # {}) =>
        /\ AllocateReturned
        /\ branch \in {"exploration", "exploitation"}
        /\ DOMAIN Allocation = DOMAIN ReqArms
        /\ \A a \in DOMAIN Allocation :
              RatLeq(<<0, 1>>, Allocation[a]) /\ RatLeq(Allocation[a], <<1, 1>>)
        /\ RatEq(SumAllocations(Allocation, DOMAIN Allocation), <<1, 1>>)

\* C1 witness: an exploitation allocation with a winning and a losing arm,
\* the losing arm with more wins than trials.
C1_Witness ==
    /\ pc = "allocated"
    /\ branch = "exploitation"
    /\ \E a, b \in DOMAIN Allocation :
          /\ Allocation[a] = <<1, 1>>
          /\ Allocation[b] = <<0, 1>>
          /\ ReqArms[b].win > ReqArms[b].total

\* C2: in the exploitation phase, num_sampled >= total_samples * epsilon
\* with the product as the object computes it, each of the k arms of maximal
\* payoff gets exactly 1/k and every arm of lower payoff exactly 0.
C2_WinnersSplitEvenly ==
    (AllocateEnded /\ DOMAIN ReqArms # {} /\ ~ReqBelowProduct) =>
        /\ AllocateReturned
        /\ branch = "exploitation"
        /\ \A a \in DOMAIN ReqArms :
              Allocation[a] = IF a \in BestArms
                              THEN <<1, Cardinality(BestArms)>>
                              ELSE <<0, 1>>

\* C2 witness: two arms tie for the best payoff and a third arm is below.
C2_Witness ==
    /\ pc = "allocated"
    /\ ~ReqBelowProduct
    /\ num_sampled(ReqArms) > 0
    /\ Cardinality(BestArms) = 2
    /\ \E a \in DOMAIN ReqArms : a \notin BestArms /\ Allocation[a] = <<0, 1>>
    /\ \A a \in BestArms : Allocation[a] = <<1, 2>>

\* C3: in the exploration phase, num_sampled < total_samples * epsilon,
\* every arm gets exactly 1/num_arms, whatever the wins and losses are.
C3_ExplorationIsUniform ==
    (AllocateEnded /\ DOMAIN ReqArms # {} /\ ReqInExploration) =>
        /\ AllocateReturned
        /\ branch = "exploration"
        /\ \A a \in DOMAIN ReqArms :
              Allocation[a] = <<1, Cardinality(DOMAIN ReqArms)>>

\* C3 witness: a uniform allocation over arms of different payoffs, one of
\* them not sampled yet.
C3_Witness ==
    /\ pc = "allocated"
    /\ ReqInExploration
    /\ Cardinality(DOMAIN ReqArms) = 3
    /\ BestArms # DOMAIN ReqArms
    /\ \E a \in DOMAIN ReqArms : ReqArms[a].total = 0
    /\ \E a \in DOMAIN ReqArms : ReqArms[a].total > 0
    /\ \A a \in DOMAIN ReqArms : Allocation[a] = <<1, 3>>

\* C4: with an empty arms_sampled allocate_arms ends by the exception and
\* returns no allocation, whatever epsilon and total_samples are.
C4_EmptyHistoryRaises ==
    (AllocateEnded /\ DOMAIN ReqArms = {}) =>
        /\ pc = "failed"
        /\ error = "ValueError"
        /\ arms_to_allocations = <<>>
        /\ winner = ""

\* C4 witness: the call on an empty history has ended.
C4_Witness ==
    /\ pc = "failed"
    /\ bandit # <<>>
    /\ DOMAIN bandit[1].historical_info = {}
    /\ DOMAIN ReqArms = {}

\* C5: when num_sampled is equal to total_samples * epsilon, the product as
\* the object computes it (the exact product, the float64 product not lying
\* above it), allocate_arms takes the exploitation branch, and with
\* epsilon = 0 every non-empty history does.
C5_BoundaryExploits ==
    (/\ AllocateEnded
     /\ DOMAIN ReqArms # {}
     /\ (ReqAtBoundary /\ ~ReqProductRoundsUp) \/ ReqEpsilon[1] = 0) =>
        /\ AllocateReturned
        /\ branch = "exploitation"
        /\ \A a \in DOMAIN ReqArms :
              (Allocation[a][1] > 0) <=> (a \in BestArms)

\* C5 witness: a sampled history exactly at a positive threshold, one arm
\* losing.
C5_Witness ==
    /\ pc = "allocated"
    /\ ReqAtBoundary
    /\ ~ReqProductRoundsUp
    /\ ReqEpsilon[1] > 0
    /\ num_sampled(ReqArms) > 0
    /\ branch = "exploitation"
    /\ \E a \in DOMAIN ReqArms : Allocation[a] = <<0, 1>>

\* C6: a call of allocate_arms, returning or raising, leaves arms_sampled,
\* num_arms, epsilon and total_samples of the object as they were.
C6_AllocateLeavesInputs ==
    [][(pc \in {"constructed", "allocated"}) => bandit' = bandit]_vars

\* C6 witness: an exploitation call with a losing arm has returned and the
\* object still holds the history of the request.
C6_Witness ==
    /\ pc = "responded"
    /\ branch = "exploitation"
    /\ \E a \in DOMAIN Allocation : Allocation[a] = <<0, 1>>
    /\ bandit[1].historical_info = ReqArms
    /\ bandit[1].epsilon = ReqEpsilon
    /\ bandit[1].total_samples = ReqTotalSamples

\* C7: choose_arm never returns an arm whose allocation is 0, so the winner
\* of a response has a positive probability in the arms of the response.
C7_WinnerHasPositiveAllocation ==
    (pc = "responded") =>
        /\ winner \in DOMAIN Allocation
        /\ Allocation[winner][1] > 0

\* C7 witness: the response over {arm1: 1.0, arm2: 0.0, arm3: 0.0}.
C7_Witness ==
    /\ pc = "responded"
    /\ DOMAIN Allocation = ArmNames
    /\ Allocation["arm1"] = <<1, 1>>
    /\ Allocation["arm2"] = <<0, 1>>
    /\ Allocation["arm3"] = <<0, 1>>
    /\ winner = "arm1"

\* The subtype and the hyperparameter_info the request schema reads, and
\* what the schema of that subtype makes of them.
ReqSubtype ==
    IF request.subtype = <<>> THEN EPSILON_SUBTYPE_GREEDY ELSE request.subtype[1]
ReqHyperparameterInfo ==
    IF request.hyperparameter_info = <<>> THEN EmptyHyperparameterInfo
    ELSE request.hyperparameter_info[1]
ReqValidated == HyperparameterInfoDeserialize(ReqSubtype, ReqHyperparameterInfo)

\* C8: the strategy is constructed, and allocate_arms and choose_arm are
\* called, only after hyperparameter_info passed the schema of the subtype;
\* the strategy holds the validated hyperparameters; after a validation
\* failure the engine is never invoked.
C8_ValidatedBeforeEngine ==
    /\ (bandit # <<>> \/ arms_to_allocations # <<>> \/ winner # "") =>
          /\ params # <<>>
          /\ bandit # <<>>
          /\ ReqValidated.raised = ""
          /\ params[1].hyperparameter_info = ReqValidated.value[1]
          /\ bandit[1].subtype = ReqSubtype
          /\ bandit[1].epsilon = ReqValidated.value[1].epsilon
          /\ RatLeq(<<0, 1>>, bandit[1].epsilon) /\ RatLeq(bandit[1].epsilon, <<1, 1>>)
          /\ ReqSubtype = EPSILON_SUBTYPE_FIRST =>
                /\ bandit[1].total_samples = ReqValidated.value[1].total_samples
                /\ bandit[1].total_samples > 0
    /\ ReqValidated.raised # "" =>
          /\ pc \in {"request", "invalid"}
          /\ bandit = <<>>
          /\ arms_to_allocations = <<>>
          /\ winner = ""
          /\ branches_taken = {}

\* C8 witness: a request of subtype 'first' was turned down for its
\* hyperparameters.
C8_Witness ==
    /\ pc = "invalid"
    /\ ReqSubtype = EPSILON_SUBTYPE_FIRST
    /\ ReqValidated.raised = "Invalid"
    /\ error = "Invalid"
    /\ bandit = <<>>

\* C9: with epsilon and total_samples fixed and the totals only growing, once
\* allocate_arms has taken the exploitation branch it never takes the
\* exploration branch again.
C9_ExploitationIsFinal ==
    ("exploitation" \in branches_taken) => (branch = "exploitation")

\* C9 witness: an experiment that explored first, up to and including the
\* history at which the float64 product lies above num_sampled, and exploits
\* now.
C9_Witness ==
    /\ pc = "schedule"
    /\ branches_taken = {"exploration", "exploitation"}
    /\ branch = "exploitation"
    /\ FloatProductRoundsUp(bandit[1].total_samples, bandit[1].epsilon)
    /\ num_sampled(bandit[1].historical_info) * bandit[1].epsilon[2]
          > bandit[1].total_samples * bandit[1].epsilon[1]

\* C10: when the exploitation code runs, an arm with total = 0 scores 0 and
\* payoffs are signed: an unsampled arm wins exactly when no sampled arm has
\* win > loss, an arm of lower signed payoff than another gets 0 (so among
\* negative payoffs the least negative wins), and equal payoffs give every
\* arm 1/num_arms.
C10_SignedPayoffs ==
    (AllocateEnded /\ branch = "exploitation") =>
        /\ AllocateReturned
        /\ \A a \in DOMAIN ReqArms :
              ReqArms[a].total = 0 =>
                 ((Allocation[a][1] > 0) <=>
                     ~\E b \in DOMAIN ReqArms :
                         ReqArms[b].total > 0 /\ ReqArms[b].win > ReqArms[b].loss)
        /\ \A a, b \in DOMAIN ReqArms :
              RatLess(SignedPayoff(ReqArms[a]), SignedPayoff(ReqArms[b]))
                 => Allocation[a] = <<0, 1>>
        /\ (\A a, b \in DOMAIN ReqArms :
                RatEq(SignedPayoff(ReqArms[a]), SignedPayoff(ReqArms[b])))
              => \A a \in DOMAIN ReqArms :
                    Allocation[a] = <<1, Cardinality(DOMAIN ReqArms)>>

\* C10 witness: an arm with wins but no trial scores 0 and wins, a sampled
\* arm of negative payoff gets nothing.
C10_Witness ==
    /\ pc = "allocated"
    /\ branch = "exploitation"
    /\ \E a, b \in DOMAIN ReqArms :
          /\ ReqArms[a].total = 0 /\ ReqArms[a].win > 0
          /\ Allocation[a][1] > 0
          /\ ReqArms[b].total > 0 /\ ReqArms[b].win < ReqArms[b].loss
          /\ Allocation[b] = <<0, 1>>

===========================================================================
